---- MODULE Spec2Model ----
(***************************************************************************)
(* Model of rsdbgen (src/main.rs): the generation pass of do_it, from the  *)
(* fetched column rows to the rendered scope.  Table names are sequences   *)
(* of one-character strings, so that the class-case conversion is computed *)
(* character by character; column names, native type names and target     *)
(* type names are strings.                                                 *)
(***************************************************************************)
EXTENDS Integers, Sequences, FiniteSets, TLC

VARIABLES rows, pc, pos, scope, stdout, panic_msg, groups

vars == <<rows, pc, pos, scope, stdout, panic_msg, groups>>

\* ------------------------------------------------------------------ bounds
MaxRows == 3
MaxOrd == 2

\* ------------------------------------------------------------- characters
LowerCase == <<"a","b","c","d","e","f","g","h","i","j","k","l","m",
               "n","o","p","q","r","s","t","u","v","w","x","y","z">>
UpperCase == <<"A","B","C","D","E","F","G","H","I","J","K","L","M",
               "N","O","P","Q","R","S","T","U","V","W","X","Y","Z">>
Digits == <<"0","1","2","3","4","5","6","7","8","9">>

IndexIn(c, alphabet) == CHOOSE i \in 1..Len(alphabet) : alphabet[i] = c

Range(f) == {f[i] : i \in DOMAIN f}

LowerSet == Range(LowerCase)
UpperSet == Range(UpperCase)
DigitSet == Range(Digits)
ToUpper == [c \in LowerSet |-> UpperCase[IndexIn(c, LowerCase)]]
ToLower == [c \in UpperSet |-> LowerCase[IndexIn(c, UpperCase)]]

is_lowercase(c) == c \in LowerSet
is_uppercase(c) == c \in UpperSet
is_numeric(c) == c \in DigitSet
is_not_alphanumeric(c) == ~(is_lowercase(c) \/ is_uppercase(c) \/ is_numeric(c))

to_ascii_uppercase(c) == IF is_lowercase(c) THEN ToUpper[c] ELSE c
to_ascii_lowercase(c) == IF is_uppercase(c) THEN ToLower[c] ELSE c

\* ------------------------------------------------------------ table names
sqlx_migrations == <<"_","s","q","l","x","_","m","i","g","r","a","t","i","o","n","s">>
SQLX_MIGRATIONS == <<"_","S","Q","L","X","_","M","I","G","R","A","T","I","O","N","S">>
users == <<"u","s","e","r","s">>
Users == <<"U","s","e","r","s">>
customer_orders == <<"c","u","s","t","o","m","e","r","_","o","r","d","e","r","s">>

\* --------------------------------------------------------- Name Normalizer
\* inflector::cases::classcase::to_class_case, the function main.rs imports:
\* the camel-like pass with the class-case options (new_word = true,
\* first_word = false, no separator injected, not inverted), then the last
\* word (from the last upper-case letter on) is singularised.
RECURSIVE trim_right(_)
trim_right(s) ==
    IF s # <<>> /\ is_not_alphanumeric(s[Len(s)])
    THEN trim_right(SubSeq(s, 1, Len(s) - 1))
    ELSE s

RECURSIVE camel_like_from(_, _, _, _, _, _)
camel_like_from(s, i, new_word, last_char, found_real_char, result) ==
    IF i > Len(s) THEN result
    ELSE LET character == s[i] IN
         IF is_not_alphanumeric(character) /\ found_real_char
         THEN camel_like_from(s, i + 1, TRUE, last_char, found_real_char, result)
         ELSE IF ~found_real_char /\ is_not_alphanumeric(character)
         THEN camel_like_from(s, i + 1, new_word, last_char, found_real_char, result)
         ELSE IF is_numeric(character)
         THEN camel_like_from(s, i + 1, TRUE, last_char, TRUE,
                              Append(result, character))
         ELSE IF new_word \/ (is_lowercase(last_char) /\ is_uppercase(character)
                              /\ last_char # " ")
         THEN camel_like_from(s, i + 1, FALSE, last_char, TRUE,
                              Append(result, to_ascii_uppercase(character)))
         ELSE camel_like_from(s, i + 1, new_word, character, TRUE,
                              Append(result, to_ascii_lowercase(character)))

to_case_camel_like(s) == camel_like_from(trim_right(s), 1, TRUE, " ", FALSE, <<>>)

\* Position of the last upper-case letter, counted as the number of
\* characters before it (rfind(char::is_uppercase).unwrap_or(0)).
rfind_uppercase(s) ==
    IF \E i \in 1..Len(s) : is_uppercase(s[i])
    THEN (CHOOSE i \in 1..Len(s) :
             is_uppercase(s[i]) /\ \A j \in (i + 1)..Len(s) : ~is_uppercase(s[j])) - 1
    ELSE 0

\* The crate's default singular rule: a final "s" is dropped unless the word
\* ends in "ss".  The crate's irregular rules (-ies, -ves, -xes, ...) apply to
\* none of the table names used here.
to_singular(word) ==
    LET n == Len(word) IN
    IF n >= 2 /\ word[n] = "s" /\ word[n - 1] = "s" THEN word
    ELSE IF n >= 1 /\ word[n] = "s" THEN SubSeq(word, 1, n - 1)
    ELSE word

\* Class case without the singular form of the last word.
to_class_case_plural(s) == to_case_camel_like(s)

to_class_case(s) ==
    LET class_plural == to_case_camel_like(s)
        at == rfind_uppercase(class_plural)
    IN SubSeq(class_plural, 1, at)
         \o to_singular(SubSeq(class_plural, at + 1, Len(class_plural)))

row_struct_name(table_name) == to_class_case(table_name)

input_row_struct_name(table_name) == to_class_case(table_name) \o <<"I","n","p","u","t">>

\* ------------------------------------------------------------ Table Filter
\* The comparison made without regard to case.
should_emit_caseless(table_name) == table_name \notin {sqlx_migrations, SQLX_MIGRATIONS}

should_emit(table_name) == table_name # sqlx_migrations

\* ------------------------------------------------------------- Type Mapper
\* The arms of the match of pg_type_to_rs_type, native type |-> target type.
MatchArms ==
    [int8 |-> "i64", int4 |-> "i32", int2 |-> "i16", text |-> "String",
     varchar |-> "String", jsonb |-> "sqlx::Json",
     timestamptz |-> "chrono::DateTime<chrono::Utc>", date |-> "chrono::NaiveDate",
     float4 |-> "f32", float8 |-> "f64", uuid |-> "uuid::Uuid", boolean |-> "bool",
     bytea |-> "Vec<u8>"]

\* A default arm that hands the native type text back instead of panicking.
pg_type_to_rs_type_default(pg_type) ==
    IF pg_type \in DOMAIN MatchArms
    THEN [panicked |-> FALSE, value |-> MatchArms[pg_type]]
    ELSE [panicked |-> FALSE, value |-> pg_type]

\* The two float arms given the same width.
pg_type_to_rs_type_float(pg_type) ==
    IF pg_type = "float4" THEN [panicked |-> FALSE, value |-> "f64"]
    ELSE IF pg_type \in DOMAIN MatchArms
    THEN [panicked |-> FALSE, value |-> MatchArms[pg_type]]
    ELSE [panicked |-> TRUE, value |-> "Unknown type: " \o pg_type]

\* The result is the returned type, or the panic with its message.
pg_type_to_rs_type(pg_type) ==
    IF pg_type \in DOMAIN MatchArms
    THEN [panicked |-> FALSE, value |-> MatchArms[pg_type]]
    ELSE [panicked |-> TRUE, value |-> "Unknown type: " \o pg_type]

\* ------------------------------------------------------------ Type Emitter
\* A column of columns_vec is the tuple <<column_name, udt_name, is_nullable>>.
\* The nullability test the wrong way round.
new_field_inverted(column) ==
    IF column[3]
    THEN [name |-> "pub " \o column[1], ty |-> pg_type_to_rs_type(column[2]).value]
    ELSE [name |-> "pub " \o column[1],
          ty |-> "Option<" \o pg_type_to_rs_type(column[2]).value \o ">"]

new_field(column) ==
    IF ~column[3]
    THEN [name |-> "pub " \o column[1], ty |-> pg_type_to_rs_type(column[2]).value]
    ELSE [name |-> "pub " \o column[1],
          ty |-> "Option<" \o pg_type_to_rs_type(column[2]).value \o ">"]

\* Index of the first column whose type makes pg_type_to_rs_type panic, 0 if none.
first_panic(columns) ==
    IF \E i \in 1..Len(columns) : pg_type_to_rs_type(columns[i][2]).panicked
    THEN CHOOSE i \in 1..Len(columns) :
            /\ pg_type_to_rs_type(columns[i][2]).panicked
            /\ \A j \in 1..(i - 1) : ~pg_type_to_rs_type(columns[j][2]).panicked
    ELSE 0

fields_of(columns) == [i \in 1..Len(columns) |-> new_field(columns[i])]

\* The struct put in front of the scope's items instead of behind them.
new_struct_front(sc, item) == [sc EXCEPT !.items = <<item>> \o @]

new_struct(sc, item) == [sc EXCEPT !.items = Append(@, item)]

\* The struct is pushed onto the scope first and its fields are added column
\* by column, so a panic leaves the struct in the scope with the fields of the
\* columns before the failing one.
add_structs_for_table(sc, table_name, columns) ==
    LET bad == first_panic(columns)
        done == IF bad = 0 THEN columns ELSE SubSeq(columns, 1, bad - 1)
        item == [name |-> row_struct_name(table_name), vis |-> "pub",
                 fields |-> fields_of(done)]
    IN [scope |-> new_struct(sc, item),
        panicked |-> bad # 0,
        message |-> IF bad = 0 THEN "" ELSE pg_type_to_rs_type(columns[bad][2]).value]

\* -------------------------------------------------------- Schema Aggregator
\* itertools group_by over the row vector, keyed by table_name: the group that
\* starts at row lo runs to the last row before the key changes.  A group that
\* is dropped unread is stepped over when the next group is asked for.
\* Every row taken as a group of its own.
group_end_single(rs, lo) == lo

RECURSIVE group_end(_, _)
group_end(rs, lo) ==
    IF lo < Len(rs) /\ rs[lo + 1].table_name = rs[lo].table_name
    THEN group_end(rs, lo + 1)
    ELSE lo

\* The columns collected last row first.
columns_vec_reversed(rs, lo, hi) ==
    [i \in 1..(hi - lo + 1) |->
        <<rs[hi - i + 1].column_name, rs[hi - i + 1].udt_name, rs[hi - i + 1].is_nullable>>]

columns_vec(rs, lo, hi) ==
    [i \in 1..(hi - lo + 1) |->
        <<rs[lo + i - 1].column_name, rs[lo + i - 1].udt_name, rs[lo + i - 1].is_nullable>>]

\* ------------------------------------------------------------------ inputs
TableDefinition(tables, columns, types, nullables, ordinals) ==
    [table_name : tables, column_name : columns, udt_name : types,
     is_nullable : nullables, ordinal_position : ordinals]

\* Table names in the order of the query's ORDER BY table_name.
TableOrder == <<SQLX_MIGRATIONS, sqlx_migrations, users>>
Rank(t) == CHOOSE i \in 1..Len(TableOrder) : TableOrder[i] = t

QueryRows == TableDefinition(Range(TableOrder), {"id", "email"},
                             {"int4", "money", "bool"}, BOOLEAN, 1..MaxRows)

\* r may follow the rows s in the result of the query of do_it: ordered by
\* table_name then ordinal_position, the ordinal positions of a table being
\* 1, 2, ... and its column names distinct (information_schema.columns).
MayFollow(s, r) ==
    \/ /\ s = <<>> \/ Rank(s[Len(s)].table_name) < Rank(r.table_name)
       /\ r.ordinal_position = 1
    \/ /\ s # <<>>
       /\ s[Len(s)].table_name = r.table_name
       /\ r.ordinal_position = s[Len(s)].ordinal_position + 1
       /\ \A i \in 1..Len(s) :
             s[i].table_name = r.table_name => s[i].column_name # r.column_name

RECURSIVE QueryResults(_)
QueryResults(n) ==
    IF n = 0 THEN {<<>>}
    ELSE LET shorter == QueryResults(n - 1) IN
         shorter \cup {Append(p[1], p[2]) :
                          p \in {q \in shorter \X QueryRows :
                                    Len(q[1]) = n - 1 /\ MayFollow(q[1], q[2])}}

\* Row sequences that no query orders: any rows in any order, with any
\* ordinal positions.
AnyColumns == {<<"id", "int4">>, <<"name", "text">>, <<"email", "money">>}
AnyRows ==
    {[table_name |-> t, column_name |-> c[1], udt_name |-> c[2],
      is_nullable |-> FALSE, ordinal_position |-> o] :
        t \in {sqlx_migrations, users}, c \in AnyColumns, o \in 1..MaxOrd}
AnySequences == UNION {[1..n -> AnyRows] : n \in 0..MaxRows}

\* One table of one column, over the whole type vocabulary and beyond.
TypeNames == DOMAIN MatchArms \cup {"money", "bool", "INT4", "Text", "", "int", "i32", "String"}
OneColumnResults ==
    {<<r>> : r \in TableDefinition({sqlx_migrations, SQLX_MIGRATIONS, users, Users,
                                    customer_orders},
                                   {"id"}, TypeNames, BOOLEAN, {1})}

\* ------------------------------------------------------------------- do_it
Start ==
    /\ pc = "loop"
    /\ pos = 0
    /\ scope = [imports |-> <<"sqlx::PgConnection">>, items |-> <<>>]
    /\ stdout = <<[tag |-> "msg", text |-> "connecting to db"],
                  [tag |-> "msg", text |-> "db connected"],
                  [tag |-> "msg", text |-> "Fetched"]>>
    /\ panic_msg = ""
    /\ groups = <<>>

Init == rows \in QueryResults(MaxRows) /\ Start
InitAny == rows \in AnySequences /\ Start
InitTypes == rows \in OneColumnResults /\ Start

\* The group the for loop takes next: its key and its rows lo..hi.
NextGroup ==
    [key |-> rows[pos + 1].table_name, lo |-> pos + 1, hi |-> group_end(rows, pos + 1)]

WorkingOn(table_name) == [tag |-> "working_on", table_name |-> table_name]

\* A filtered table: continue, the group's rows are never read.
SkipTable ==
    /\ pc = "loop" /\ pos < Len(rows)
    /\ ~should_emit(NextGroup.key)
    /\ stdout' = Append(stdout, WorkingOn(NextGroup.key))
    /\ pos' = NextGroup.hi
    /\ groups' = Append(groups, [key |-> NextGroup.key, lo |-> NextGroup.lo,
                                 hi |-> NextGroup.hi, emit |-> FALSE])
    /\ UNCHANGED <<rows, pc, scope, panic_msg>>

\* A table all of whose columns map: its struct is added to the scope.
EmitTable ==
    /\ pc = "loop" /\ pos < Len(rows)
    /\ should_emit(NextGroup.key)
    /\ LET g == NextGroup
           r == add_structs_for_table(scope, g.key, columns_vec(rows, g.lo, g.hi))
       IN /\ ~r.panicked
          /\ scope' = r.scope
          /\ stdout' = Append(stdout, WorkingOn(g.key))
          /\ pos' = g.hi
          /\ groups' = Append(groups, [key |-> g.key, lo |-> g.lo, hi |-> g.hi,
                                       emit |-> TRUE])
    /\ UNCHANGED <<rows, pc, panic_msg>>

\* The scope printed on the way out of a panic.
PanicTable_flush ==
    /\ pc = "loop" /\ pos < Len(rows)
    /\ should_emit(NextGroup.key)
    /\ LET g == NextGroup
           r == add_structs_for_table(scope, g.key, columns_vec(rows, g.lo, g.hi))
       IN /\ r.panicked
          /\ scope' = r.scope
          /\ stdout' = stdout \o <<WorkingOn(g.key), [tag |-> "scope", scope |-> scope]>>
          /\ pos' = g.hi
          /\ groups' = Append(groups, [key |-> g.key, lo |-> g.lo, hi |-> g.hi,
                                       emit |-> TRUE])
          /\ panic_msg' = r.message
          /\ pc' = "panicked"
    /\ UNCHANGED rows

\* A table with a column of unknown type: pg_type_to_rs_type panics inside
\* add_structs_for_table and the unwrap-less panic ends the process.
PanicTable ==
    /\ pc = "loop" /\ pos < Len(rows)
    /\ should_emit(NextGroup.key)
    /\ LET g == NextGroup
           r == add_structs_for_table(scope, g.key, columns_vec(rows, g.lo, g.hi))
       IN /\ r.panicked
          /\ scope' = r.scope
          /\ stdout' = Append(stdout, WorkingOn(g.key))
          /\ pos' = g.hi
          /\ groups' = Append(groups, [key |-> g.key, lo |-> g.lo, hi |-> g.hi,
                                       emit |-> TRUE])
          /\ panic_msg' = r.message
          /\ pc' = "panicked"
    /\ UNCHANGED rows

\* After the last group: println!("{}", scope.to_string()) and Ok(()).
Render ==
    /\ pc = "loop" /\ pos = Len(rows)
    /\ stdout' = Append(stdout, [tag |-> "scope", scope |-> scope])
    /\ pc' = "done"
    /\ UNCHANGED <<rows, pos, scope, panic_msg, groups>>

Next == SkipTable \/ EmitTable \/ PanicTable \/ Render

Spec == Init /\ [][Next]_vars
SpecAny == InitAny /\ [][Next]_vars
SpecTypes == InitTypes /\ [][Next]_vars


\* ============================================================== properties
\* The documented vocabulary: native type names and, position by position,
\* their target base types.
NativeTypes == <<"int8", "int4", "int2", "text", "varchar", "jsonb", "timestamptz",
                 "date", "float4", "float8", "uuid", "boolean", "bytea">>
BaseTypes == <<"i64", "i32", "i16", "String", "String", "sqlx::Json",
               "chrono::DateTime<chrono::Utc>", "chrono::NaiveDate", "f32", "f64",
               "uuid::Uuid", "bool", "Vec<u8>">>
Vocabulary == Range(NativeTypes)
Documented(t) == BaseTypes[IndexIn(t, NativeTypes)]

\* The record type definitions that reached the output.
Printed ==
    IF \E i \in 1..Len(stdout) : stdout[i].tag = "scope"
    THEN stdout[CHOOSE i \in 1..Len(stdout) : stdout[i].tag = "scope"].scope.items
    ELSE <<>>

Min(S) == CHOOSE x \in S : \A y \in S : x <= y

UnknownRows == {i \in 1..Len(rows) : rows[i].udt_name \notin Vocabulary}
UnknownReadRows == {i \in UnknownRows : rows[i].table_name # sqlx_migrations}

\* C1 as stated: whenever some row, of whatever table, has a native type
\* outside the vocabulary, the run never completes normally, the loop never
\* gets past that row, and the panic names the first such type of the input.
C1_AbortsOnAnyUnknownType ==
    UnknownRows # {} =>
        /\ pc # "done"
        /\ pc = "loop" => pos < Min(UnknownRows)
        /\ pc = "panicked" =>
              panic_msg = "Unknown type: " \o rows[Min(UnknownRows)].udt_name

\* C1 amended: whenever some row of a table other than "_sqlx_migrations" has
\* a native type outside the vocabulary, the run never completes normally,
\* the loop never gets past that row, and the panic names the first such type
\* in input order; unknown types in rows of "_sqlx_migrations" are never read.
C1_AbortsOnUnknownTypeOfReadTable ==
    /\ UnknownReadRows # {} =>
          /\ pc # "done"
          /\ pc = "loop" => pos < Min(UnknownReadRows)
          /\ pc = "panicked" =>
                panic_msg = "Unknown type: " \o rows[Min(UnknownReadRows)].udt_name
    /\ pc = "panicked" => UnknownReadRows # {}

\* A panic on "money" after a skipped "_sqlx_migrations" row of type "bool".
C1_Witness ==
    /\ pc = "panicked"
    /\ panic_msg = "Unknown type: money"
    /\ \E i \in UnknownRows : i < Min(UnknownReadRows) /\ rows[i].udt_name = "bool"
    /\ \E i \in UnknownReadRows : i > Min(UnknownReadRows) /\ rows[i].udt_name = "bool"

\* C2: in a run that aborts on an unknown type nothing of the scope is ever
\* printed: no record type definition reaches the output, whatever structs
\* the scope held when the panic struck.
C2_NoOutputOnAbort ==
    pc = "panicked" =>
        /\ \A i \in 1..Len(stdout) : stdout[i].tag # "scope"
        /\ Printed = <<>>

\* An abort with the struct of an earlier table complete in the scope.
C2_Witness ==
    /\ pc = "panicked"
    /\ Len(scope.items) = 2
    /\ scope.items[1].fields # <<>>
    /\ Printed = <<>>

\* C3: on a one-column table, a native type of the vocabulary ends the run
\* with the column's field typed by the documented base type (inside Option
\* for a nullable column), and any other string, whatever its case and also
\* the empty one, ends it in the unknown-type panic with nothing printed; a
\* printed field type is thus always built from the vocabulary.
C3_TypeMapper ==
    (Len(rows) = 1 /\ rows[1].table_name # sqlx_migrations) =>
        LET t == rows[1].udt_name IN
        /\ pc = "done" =>
              /\ t \in Vocabulary
              /\ Len(Printed) = 1 /\ Len(Printed[1].fields) = 1
              /\ Printed[1].fields[1].ty =
                    IF rows[1].is_nullable THEN "Option<" \o Documented(t) \o ">"
                    ELSE Documented(t)
        /\ pc = "panicked" =>
              /\ t \notin Vocabulary
              /\ panic_msg = "Unknown type: " \o t
              /\ Printed = <<>>
        /\ (pc = "loop" /\ pos = 1) => t \in Vocabulary

C3_Witness ==
    /\ pc = "done"
    /\ rows[1].udt_name = "timestamptz"
    /\ Printed[1].fields[1].ty = "chrono::DateTime<chrono::Utc>"


\* The distinct table names of rs in the order of their first rows.
RECURSIVE FirstSeen(_)
FirstSeen(rs) ==
    IF rs = <<>> THEN <<>>
    ELSE LET before == FirstSeen(SubSeq(rs, 1, Len(rs) - 1))
             t == rs[Len(rs)].table_name
         IN IF t \in Range(before) THEN before ELSE Append(before, t)

\* The tables of the input that pass the filter, in first-seen order.
IsReserved(t) == t = sqlx_migrations
FilteredTables ==
    LET KeptOf(t) == ~IsReserved(t) IN SelectSeq(FirstSeen(rows), KeptOf)

\* The rows of table t, in increasing ordinal position.
RowsOfTable(t) == {i \in 1..Len(rows) : rows[i].table_name = t}
ByOrdinal(t) ==
    [n \in 1..Cardinality(RowsOfTable(t)) |->
        rows[CHOOSE i \in RowsOfTable(t) :
                Cardinality({j \in RowsOfTable(t) :
                    rows[j].ordinal_position < rows[i].ordinal_position}) = n - 1]]

\* C4: in the output of a completed run the record type of each table has
\* exactly one field per column of the table, and the field's type is
\* Option<base> when the column is nullable and the plain base type when it is
\* not, base being the documented base type of the column's native type.
C4_OptionIffNullable ==
    pc = "done" =>
        /\ Len(Printed) = Len(FilteredTables)
        /\ \A k \in 1..Len(Printed) :
              LET cols == ByOrdinal(FilteredTables[k]) IN
              /\ Len(Printed[k].fields) = Len(cols)
              /\ \A i \in 1..Len(cols) :
                    /\ cols[i].is_nullable =>
                          Printed[k].fields[i].ty =
                              "Option<" \o Documented(cols[i].udt_name) \o ">"
                    /\ ~cols[i].is_nullable =>
                          Printed[k].fields[i].ty = Documented(cols[i].udt_name)

\* A record type with a plain field followed by an optional one.
C4_Witness ==
    /\ pc = "done"
    /\ \E k \in 1..Len(Printed) :
          /\ Len(Printed[k].fields) = 2
          /\ Printed[k].fields[1].ty = "i32"
          /\ Printed[k].fields[2].ty = "Option<i32>"

\* C5: in the output of a completed run the field names of the record type
\* of each table are the table's column names in increasing ordinal
\* position, each behind the "pub " the field is declared with: no column is
\* dropped, duplicated or moved.
C5_FieldsInOrdinalOrder ==
    pc = "done" =>
        /\ Len(Printed) = Len(FilteredTables)
        /\ \A k \in 1..Len(Printed) :
              LET cols == ByOrdinal(FilteredTables[k]) IN
              [i \in 1..Len(Printed[k].fields) |-> Printed[k].fields[i].name]
                  = [i \in 1..Len(cols) |-> "pub " \o cols[i].column_name]

\* A record type with the fields email, id, in that (ordinal) order.
C5_Witness ==
    /\ pc = "done"
    /\ \E k \in 1..Len(Printed) :
          /\ Len(Printed[k].fields) = 2
          /\ Printed[k].fields[1].name = "pub email"
          /\ Printed[k].fields[2].name = "pub id"

\* C6: in a run that completes, a group of rows gives a record type exactly
\* when its table name is not "_sqlx_migrations" (compared exactly, so
\* "_SQLX_MIGRATIONS" is emitted); the output has one record type per such
\* table, built from that table's rows only, so that no column of
\* "_sqlx_migrations" is a field of any of them.
C6_FilterEndToEnd ==
    pc = "done" =>
        /\ \A g \in 1..Len(groups) : groups[g].emit <=> groups[g].key # sqlx_migrations
        /\ Len(Printed) =
              Cardinality({rows[i].table_name : i \in 1..Len(rows)} \ {sqlx_migrations})
        /\ \A k \in 1..Len(Printed) :
              /\ FilteredTables[k] # sqlx_migrations
              /\ Len(Printed[k].fields) = Cardinality(RowsOfTable(FilteredTables[k]))
              /\ \A i \in 1..Len(Printed[k].fields) :
                    \E j \in RowsOfTable(FilteredTables[k]) :
                        Printed[k].fields[i].name = "pub " \o rows[j].column_name

\* "_SQLX_MIGRATIONS", "_sqlx_migrations" and "users" in the input; the first
\* and the last are emitted.
C6_Witness ==
    /\ pc = "done"
    /\ {rows[i].table_name : i \in 1..Len(rows)} = {SQLX_MIGRATIONS, sqlx_migrations, users}
    /\ Len(Printed) = 2

\* C7: for an input ordered by table name and ordinal position on which the
\* run completes, the output has exactly one record type per table passing
\* the filter, and the record types stand in the order in which their tables
\* first appear in the input.
C7_FirstSeenOrder ==
    pc = "done" =>
        /\ Len(Printed) = Len(FilteredTables)
        /\ \A k \in 1..Len(Printed) :
              Printed[k].name = row_struct_name(FilteredTables[k])
        /\ \A j, k \in 1..Len(FilteredTables) :
              j < k => Min(RowsOfTable(FilteredTables[j])) < Min(RowsOfTable(FilteredTables[k]))

\* Two record types printed, of two different tables.
C7_Witness ==
    /\ pc = "done"
    /\ Len(Printed) = 2
    /\ Printed[1].name # Printed[2].name
    /\ Len(rows) = 3

CustomerOrders == <<"C","u","s","t","o","m","e","r","O","r","d","e","r","s">>
CustomerOrder == <<"C","u","s","t","o","m","e","r","O","r","d","e","r">>
InputSuffix == <<"I","n","p","u","t">>

Malformed ==
    \/ \E i, j, k \in 1..Len(rows) :
          /\ i < j /\ j < k
          /\ rows[i].table_name = rows[k].table_name
          /\ rows[j].table_name # rows[i].table_name
    \/ \E i \in 1..(Len(rows) - 1) :
          /\ rows[i].table_name = rows[i + 1].table_name
          /\ rows[i].ordinal_position >= rows[i + 1].ordinal_position

EmittedUpTo(g) == Cardinality({h \in 1..g : groups[h].emit})

\* C10: on any input, ordered or not, the groups the loop has taken are the
\* maximal runs of adjacent rows with one table name: each is non-empty with
\* all its rows of the group's key, they follow each other without gap or
\* overlap from the first row on, a group's key differs from its
\* predecessor's, and at the end of the loop they cover the input.  The
\* struct of an emitted group has the columns of exactly that group's rows,
\* whatever was skipped before it.
C10_GroupsAreMaximalRuns ==
    /\ \A g \in 1..Len(groups) :
          /\ groups[g].lo <= groups[g].hi
          /\ groups[g].lo = IF g = 1 THEN 1 ELSE groups[g - 1].hi + 1
          /\ \A i \in groups[g].lo..groups[g].hi : rows[i].table_name = groups[g].key
          /\ g > 1 => groups[g - 1].key # groups[g].key
          /\ groups[g].hi < Len(rows) => rows[groups[g].hi + 1].table_name # groups[g].key
    /\ pos = IF groups = <<>> THEN 0 ELSE groups[Len(groups)].hi
    /\ pc = "done" => pos = Len(rows)
    /\ pc # "panicked" =>
          /\ Len(scope.items) = EmittedUpTo(Len(groups))
          /\ \A g \in 1..Len(groups) :
                groups[g].emit =>
                    [i \in 1..Len(scope.items[EmittedUpTo(g)].fields) |->
                        scope.items[EmittedUpTo(g)].fields[i].name]
                    = [i \in 1..(groups[g].hi - groups[g].lo + 1) |->
                        "pub " \o rows[groups[g].lo + i - 1].column_name]

\* A skipped run of two rows followed by an emitted run of one row.
C10_Witness ==
    /\ pc = "done"
    /\ Len(groups) = 2
    /\ ~groups[1].emit /\ groups[1].hi = 2
    /\ groups[2].emit
    /\ Len(Printed) = 1 /\ Len(Printed[1].fields) = 1


====
